---------------------------- MODULE Spec2Model ----------------------------
(***************************************************************************)
(* Model of the job-application pipeline of app/agents/graph.py and        *)
(* app/agents/nodes.py: run_pipeline threads one state dict through the    *)
(* five LangGraph nodes parse_jd_node, skill_gap_node, cover_letter_node,  *)
(* email_node and interview_prep_node.                                     *)
(*                                                                         *)
(* Text is a sequence of one-character strings.  Python values are tagged  *)
(* records (JNull, JBool, JNum, JStr, JArr, JObj).  An operation that can  *)
(* raise returns [ok |-> BOOLEAN, v |-> value].                            *)
(***************************************************************************)
EXTENDS Integers, Sequences, FiniteSets, TLC

VARIABLES
  http,      \* the response of /analyze to the request
  runs,      \* per concurrent run_pipeline invocation: its position,
             \* arguments, state dict reference, answers and outcome
  heap,      \* the state dicts of the concurrent invocations, by reference
  memo,      \* the answers a deterministic Generator has given, by prompt
  procs,     \* per request to /upload-resume or /ingest-resume: its
             \* position, body, response, and whether it called
             \* ingest_resume
  lastAdded, \* <<>>, or <<the resume text whose add_texts ran last>>
  observed   \* what retrieve_resume_context returned while resumes were
             \* being ingested

\* ------------------------------------------------------------------------
\* Python values
\* ------------------------------------------------------------------------

JNull == [t |-> "null"]

JBool(b) == [t |-> "bool", b |-> b]

JNum(n) == [t |-> "num", n |-> n]

JStr(s) == [t |-> "str", s |-> s]

JArr(a) == [t |-> "arr", a |-> a]

\* a dict: keys in insertion order, vals[i] is the value of keys[i]
JObj(keys, vals) == [t |-> "obj", k |-> keys, v |-> vals]

Ok(v) == [ok |-> TRUE, v |-> v]

Raised == [ok |-> FALSE, v |-> JNull]

\* ------------------------------------------------------------------------
\* Characters
\* ------------------------------------------------------------------------

Whitespace == {" ", "\n"}

\* the fence character U+0060, which a TLA+ string cannot hold: the model
\* names it
Backtick == "BACKTICK"

Digits == {"0", "1", "2", "3", "4", "5", "6", "7", "8", "9"}

DigitVal(c) ==
  CASE c = "0" -> 0 [] c = "1" -> 1 [] c = "2" -> 2 [] c = "3" -> 3
    [] c = "4" -> 4 [] c = "5" -> 5 [] c = "6" -> 6 [] c = "7" -> 7
    [] c = "8" -> 8 [] c = "9" -> 9

\* ------------------------------------------------------------------------
\* str methods used by the nodes
\* ------------------------------------------------------------------------

\* s[i-1:] in Python terms: the suffix of s that starts at (1-based) i
Suffix(s, i) == SubSeq(s, i, Len(s))

\* s.startswith(p)
startswith(s, p) == Len(s) >= Len(p) /\ SubSeq(s, 1, Len(p)) = p

\* s.strip(): s without its leading and trailing whitespace
strip(s) ==
  LET inner == {j \in 1..Len(s) : s[j] \notin Whitespace}
  IN  IF inner = {} THEN <<>>
      ELSE SubSeq(s, CHOOSE j \in inner : \A m \in inner : j <= m,
                     CHOOSE j \in inner : \A m \in inner : m <= j)

\* the places of s where sep occurs
Occurrences(s, sep) ==
  {j \in 1..(Len(s) - Len(sep) + 1) : SubSeq(s, j, j + Len(sep) - 1) = sep}

\* s.split(sep): the pieces of s between the leftmost non-overlapping
\* occurrences of sep; i is the start of the current piece
RECURSIVE SplitFrom(_, _, _)
SplitFrom(s, sep, i) ==
  LET later == {j \in Occurrences(s, sep) : j >= i}
  IN  IF later = {} THEN <<Suffix(s, i)>>
      ELSE LET j == CHOOSE x \in later : \A y \in later : x <= y
           IN  <<SubSeq(s, i, j - 1)>> \o SplitFrom(s, sep, j + Len(sep))

split(s, sep) == SplitFrom(s, sep, 1)

\* ------------------------------------------------------------------------
\* json.loads (strict JSON over the characters of the model: objects,
\* arrays, strings without escapes, integers, null/true/false)
\* ------------------------------------------------------------------------

PFail == [ok |-> FALSE, v |-> JNull, i |-> 0]

POk(v, i) == [ok |-> TRUE, v |-> v, i |-> i]

\* the first place at or after i that holds no whitespace (Len(s) + 1 when
\* there is none)
SkipWs(s, i) ==
  IF i > Len(s) THEN i
  ELSE CHOOSE j \in i..(Len(s) + 1) :
         /\ j = Len(s) + 1 \/ s[j] \notin Whitespace
         /\ \A m \in i..(j - 1) : s[m] \in Whitespace

\* s[i] follows the opening quote: the string ends at the next quote; a raw
\* control character inside the string is rejected (strict mode)
ScanString(s, i) ==
  LET j == CHOOSE x \in i..(Len(s) + 1) :
             /\ x = Len(s) + 1 \/ s[x] = "\""
             /\ \A m \in i..(x - 1) : s[m] # "\""
  IN  IF j > Len(s) THEN PFail
      ELSE IF \E m \in i..(j - 1) : s[m] = "\n" THEN PFail
      ELSE POk(JStr(SubSeq(s, i, j - 1)), j + 1)

RECURSIVE ScanDigits(_, _, _)
ScanDigits(s, i, n) ==
  IF i <= Len(s) /\ s[i] \in Digits
  THEN ScanDigits(s, i + 1, 10 * n + DigitVal(s[i]))
  ELSE [n |-> n, i |-> i]

\* -?(0|[1-9][0-9]*)
ScanNumber(s, i) ==
  LET neg == s[i] = "-"
      j   == IF neg THEN i + 1 ELSE i
  IN  IF j > Len(s) \/ s[j] \notin Digits THEN PFail
      ELSE IF s[j] = "0" THEN POk(JNum(0), j + 1)
      ELSE LET d == ScanDigits(s, j, 0)
           IN  POk(JNum(IF neg THEN 0 - d.n ELSE d.n), d.i)

\* dict[key] = val: a repeated key keeps its place and takes the last value
DictPut(keys, vals, key, val) ==
  IF \E n \in 1..Len(keys) : keys[n] = key
  THEN [k |-> keys,
        v |-> [n \in 1..Len(vals) |-> IF keys[n] = key THEN val ELSE vals[n]]]
  ELSE [k |-> Append(keys, key), v |-> Append(vals, val)]

RECURSIVE ParseValue(_, _), ParseElems(_, _, _), ParseMembers(_, _, _, _)
ParseValue(s, i) ==
  IF i > Len(s) THEN PFail
  ELSE IF s[i] = "\"" THEN ScanString(s, i + 1)
  ELSE IF s[i] = "{" THEN
    LET j == SkipWs(s, i + 1)
    IN  IF j <= Len(s) /\ s[j] = "}" THEN POk(JObj(<<>>, <<>>), j + 1)
        ELSE ParseMembers(s, j, <<>>, <<>>)
  ELSE IF s[i] = "[" THEN
    LET j == SkipWs(s, i + 1)
    IN  IF j <= Len(s) /\ s[j] = "]" THEN POk(JArr(<<>>), j + 1)
        ELSE ParseElems(s, j, <<>>)
  ELSE IF startswith(Suffix(s, i), <<"n", "u", "l", "l">>)
    THEN POk(JNull, i + 4)
  ELSE IF startswith(Suffix(s, i), <<"t", "r", "u", "e">>)
    THEN POk(JBool(TRUE), i + 4)
  ELSE IF startswith(Suffix(s, i), <<"f", "a", "l", "s", "e">>)
    THEN POk(JBool(FALSE), i + 5)
  ELSE IF s[i] = "-" \/ s[i] \in Digits THEN ScanNumber(s, i)
  ELSE PFail

\* s[i] starts an element of an array whose earlier elements are acc
ParseElems(s, i, acc) ==
  LET r == ParseValue(s, i)
  IN  IF ~r.ok THEN PFail
      ELSE LET j == SkipWs(s, r.i)
           IN  IF j > Len(s) THEN PFail
               ELSE IF s[j] = "]" THEN POk(JArr(Append(acc, r.v)), j + 1)
               ELSE IF s[j] = ","
                 THEN ParseElems(s, SkipWs(s, j + 1), Append(acc, r.v))
               ELSE PFail

\* s[i] starts a "key": value member of an object whose earlier members are
\* keys/vals
ParseMembers(s, i, keys, vals) ==
  IF i > Len(s) \/ s[i] # "\"" THEN PFail
  ELSE
    LET key == ScanString(s, i + 1)
    IN  IF ~key.ok THEN PFail
        ELSE
          LET c == SkipWs(s, key.i)
          IN  IF c > Len(s) \/ s[c] # ":" THEN PFail
              ELSE
                LET r == ParseValue(s, SkipWs(s, c + 1))
                IN  IF ~r.ok THEN PFail
                    ELSE
                      LET j == SkipWs(s, r.i)
                          d == DictPut(keys, vals, key.v.s, r.v)
                      IN  IF j > Len(s) THEN PFail
                          ELSE IF s[j] = "}"
                            THEN POk(JObj(d.k, d.v), j + 1)
                          ELSE IF s[j] = ","
                            THEN ParseMembers(s, SkipWs(s, j + 1), d.k, d.v)
                          ELSE PFail

\* json.loads(s): the value, or raised (JSONDecodeError) on malformed text or
\* on anything but whitespace after the value
json_loads(s) ==
  LET r == ParseValue(s, SkipWs(s, 1))
  IN  IF r.ok /\ SkipWs(s, r.i) = Len(s) + 1 THEN Ok(r.v) ELSE Raised


\* ------------------------------------------------------------------------
\* Operations of Python values that the nodes apply to parsed payloads
\* ------------------------------------------------------------------------

Take(a, n) == SubSeq(a, 1, IF Len(a) < n THEN Len(a) ELSE n)

\* d.get(key, default): AttributeError unless d is a dict
dict_get(d, key, default) ==
  IF d.t # "obj" THEN Raised
  ELSE IF \E n \in 1..Len(d.k) : d.k[n] = key
       THEN Ok(d.v[CHOOSE n \in 1..Len(d.k) : d.k[n] = key])
       ELSE Ok(default)

\* x[:n]: defined on lists and strings, TypeError (KeyError on a dict) else
slice_to(x, n) ==
  IF x.t = "arr" THEN Ok(JArr(Take(x.a, n)))
  ELSE IF x.t = "str" THEN Ok(JStr(Take(x.s, n)))
  ELSE Raised

RECURSIVE JoinTexts(_, _)
JoinTexts(sep, texts) ==
  IF texts = <<>> THEN <<>>
  ELSE IF Len(texts) = 1 THEN texts[1]
  ELSE texts[1] \o sep \o JoinTexts(sep, Tail(texts))

\* sep.join(x): x is iterated (a list by element, a string by character, a
\* dict by key); TypeError when x is not iterable or an item is not a string
join(sep, x) ==
  IF x.t = "arr" THEN
    IF \A n \in 1..Len(x.a) : x.a[n].t = "str"
    THEN Ok(JStr(JoinTexts(sep, [n \in 1..Len(x.a) |-> x.a[n].s])))
    ELSE Raised
  ELSE IF x.t = "str"
    THEN Ok(JStr(JoinTexts(sep, [n \in 1..Len(x.s) |-> <<x.s[n]>>])))
  ELSE IF x.t = "obj" THEN Ok(JStr(JoinTexts(sep, x.k)))
  ELSE Raised

AsInt(x) == IF x.t = "num" THEN x.n ELSE IF x.b THEN 1 ELSE 0

\* y + x: the operands of + taken in the other order
plus_Swapped(x, y) ==
  IF x.t = "arr" /\ y.t = "arr" THEN Ok(JArr(y.a \o x.a))
  ELSE IF x.t = "str" /\ y.t = "str" THEN Ok(JStr(y.s \o x.s))
  ELSE IF x.t \in {"num", "bool"} /\ y.t \in {"num", "bool"}
    THEN Ok(JNum(AsInt(y) + AsInt(x)))
  ELSE Raised

\* x + y: list + list, str + str, number + number (bool is an int);
\* TypeError otherwise
plus(x, y) ==
  IF x.t = "arr" /\ y.t = "arr" THEN Ok(JArr(x.a \o y.a))
  ELSE IF x.t = "str" /\ y.t = "str" THEN Ok(JStr(x.s \o y.s))
  ELSE IF x.t \in {"num", "bool"} /\ y.t \in {"num", "bool"}
    THEN Ok(JNum(AsInt(x) + AsInt(y)))
  ELSE Raised

DigitChar(d) ==
  CASE d = 0 -> "0" [] d = 1 -> "1" [] d = 2 -> "2" [] d = 3 -> "3"
    [] d = 4 -> "4" [] d = 5 -> "5" [] d = 6 -> "6" [] d = 7 -> "7"
    [] d = 8 -> "8" [] d = 9 -> "9"

RECURSIVE NatText(_)
NatText(n) ==
  IF n < 10 THEN <<DigitChar(n)>>
  ELSE Append(NatText(n \div 10), DigitChar(n % 10))

IntText(n) == IF n < 0 THEN <<"-">> \o NatText(0 - n) ELSE NatText(n)

\* json.dumps(x) with the default separators ", " and ": "
RECURSIVE json_dumps(_)
json_dumps(x) ==
  CASE x.t = "null" -> <<"n", "u", "l", "l">>
    [] x.t = "bool" -> IF x.b THEN <<"t", "r", "u", "e">>
                               ELSE <<"f", "a", "l", "s", "e">>
    [] x.t = "num"  -> IntText(x.n)
    [] x.t = "str"  -> <<"\"">> \o x.s \o <<"\"">>
    [] x.t = "arr"  ->
         <<"[">> \o JoinTexts(<<",", " ">>,
                              [n \in 1..Len(x.a) |-> json_dumps(x.a[n])])
                 \o <<"]">>
    [] x.t = "obj"  ->
         <<"{">> \o JoinTexts(<<",", " ">>,
                              [n \in 1..Len(x.k) |->
                                 <<"\"">> \o x.k[n] \o <<"\"", ":", " ">>
                                   \o json_dumps(x.v[n])])
                 \o <<"}">>

\* repr(x) / str(x) as an f-string formats a value (the strings of the model
\* hold no quote character, so repr quotes them with ')
RECURSIVE py_repr(_)
py_repr(x) ==
  CASE x.t = "null" -> <<"N", "o", "n", "e">>
    [] x.t = "bool" -> IF x.b THEN <<"T", "r", "u", "e">>
                               ELSE <<"F", "a", "l", "s", "e">>
    [] x.t = "num"  -> IntText(x.n)
    [] x.t = "str"  -> <<"'">> \o x.s \o <<"'">>
    [] x.t = "arr"  ->
         <<"[">> \o JoinTexts(<<",", " ">>,
                              [n \in 1..Len(x.a) |-> py_repr(x.a[n])])
                 \o <<"]">>
    [] x.t = "obj"  ->
         <<"{">> \o JoinTexts(<<",", " ">>,
                              [n \in 1..Len(x.k) |->
                                 <<"'">> \o x.k[n] \o <<"'", ":", " ">>
                                   \o py_repr(x.v[n])])
                 \o <<"}">>

py_str(x) == IF x.t = "str" THEN x.s ELSE py_repr(x)

\* ------------------------------------------------------------------------
\* Keys and literal strings of nodes.py
\* ------------------------------------------------------------------------

K_job_title ==
    <<"j", "o", "b", "_", "t", "i", "t", "l", "e">>

K_company ==
    <<"c", "o", "m", "p", "a", "n", "y">>

K_skills_required ==
    <<"s", "k", "i", "l", "l", "s", "_", "r", "e", "q", "u", "i", "r",
      "e", "d">>

K_responsibilities ==
    <<"r", "e", "s", "p", "o", "n", "s", "i", "b", "i", "l", "i", "t",
      "i", "e", "s">>

K_experience_years ==
    <<"e", "x", "p", "e", "r", "i", "e", "n", "c", "e", "_", "y", "e",
      "a", "r", "s">>

K_location ==
    <<"l", "o", "c", "a", "t", "i", "o", "n">>

K_matched_skills ==
    <<"m", "a", "t", "c", "h", "e", "d", "_", "s", "k", "i", "l", "l", "s">>

K_missing_skills ==
    <<"m", "i", "s", "s", "i", "n", "g", "_", "s", "k", "i", "l", "l", "s">>

K_match_score ==
    <<"m", "a", "t", "c", "h", "_", "s", "c", "o", "r", "e">>

K_summary ==
    <<"s", "u", "m", "m", "a", "r", "y">>

K_technical_questions ==
    <<"t", "e", "c", "h", "n", "i", "c", "a", "l", "_", "q", "u", "e",
      "s", "t", "i", "o", "n", "s">>

K_behavioral_questions ==
    <<"b", "e", "h", "a", "v", "i", "o", "r", "a", "l", "_", "q", "u",
      "e", "s", "t", "i", "o", "n", "s">>

K_prep_tips ==
    <<"p", "r", "e", "p", "_", "t", "i", "p", "s">>

T_Unknown ==
    <<"U", "n", "k", "n", "o", "w", "n">>

T_CouldNotAnalyze ==
    <<"C", "o", "u", "l", "d", " ", "n", "o", "t", " ", "a", "n", "a",
      "l", "y", "z", "e", ".">>

T_FocusTip ==
    <<"F", "o", "c", "u", "s", " ", "o", "n", " ", "y", "o", "u", "r",
      " ", "e", "x", "p", "e", "r", "i", "e", "n", "c", "e", " ", "w",
      "i", "t", "h", " ", "t", "h", "e", " ", "m", "a", "t", "c", "h",
      "e", "d", " ", "s", "k", "i", "l", "l", "s", ".">>

T_json ==
    <<"j", "s", "o", "n">>

\* the literal part of the f-string of skill_gap_node
Q_SkillsExperience ==
    <<"s", "k", "i", "l", "l", "s", " ", "e", "x", "p", "e", "r", "i",
      "e", "n", "c", "e", " ">>

\* the literal part of the f-string of cover_letter_node
Q_ExperienceSuffix ==
    <<" ", "e", "x", "p", "e", "r", "i", "e", "n", "c", "e", " ", "p",
      "r", "o", "j", "e", "c", "t", "s", " ", "a", "c", "h", "i", "e",
      "v", "e", "m", "e", "n", "t", "s">>

Q_ContactCover ==
    <<"n", "a", "m", "e", " ", "a", "d", "d", "r", "e", "s", "s", " ",
      "p", "h", "o", "n", "e", " ", "e", "m", "a", "i", "l", " ", "c",
      "o", "n", "t", "a", "c", "t", " ", "l", "o", "c", "a", "t", "i",
      "o", "n">>

Q_ContactEmail ==
    <<"n", "a", "m", "e", " ", "a", "d", "d", "r", "e", "s", "s", " ",
      "p", "h", "o", "n", "e", " ", "e", "m", "a", "i", "l", " ", "c",
      "o", "n", "t", "a", "c", "t">>

\* the Markdown fence marker
Fence == <<Backtick, Backtick, Backtick>>

\* ------------------------------------------------------------------------
\* The body of the try block of the three structured nodes (nodes.py
\* 47-53, 101-106, 271-276 are the same statements)
\* ------------------------------------------------------------------------

\* text = content.strip(); a leading fence takes the piece after it, a
\* leading "json" of that piece is cut; json.loads(text.strip())
try_parse(content) ==
  LET text0 == strip(content)
      text1 == IF startswith(text0, Fence) THEN split(text0, Fence)[2]
               ELSE text0
      text2 == IF startswith(text0, Fence) /\ startswith(text1, T_json)
               THEN Suffix(text1, 5) ELSE text1
  IN  json_loads(strip(text2))

\* ------------------------------------------------------------------------
\* parse_jd_node
\* ------------------------------------------------------------------------

\* the except branch of parse_jd_node falling back to {}
parse_jd_default_Empty == JObj(<<>>, <<>>)

parse_jd_default ==
  JObj(<<K_job_title, K_company, K_skills_required, K_responsibilities,
         K_experience_years, K_location>>,
       <<JStr(T_Unknown), JStr(T_Unknown), JArr(<<>>), JArr(<<>>),
         JStr(T_Unknown), JStr(T_Unknown)>>)

\* parsed: what json.loads returned, the default when the try block raised
parse_jd_parsed(content) ==
  LET r == try_parse(content) IN IF r.ok THEN r.v ELSE parse_jd_default

\* parse_jd_node reporting a text that did not parse in the error key
parse_jd_update_SetsError(parsed) ==
  IF parsed = parse_jd_default
  THEN [parsed_jd |-> parsed, current_step |-> "jd_parsed",
        error |-> JStr(<<"p", "a", "r", "s", "e">>)]
  ELSE [parsed_jd |-> parsed, current_step |-> "jd_parsed"]

\* the keys parse_jd_node sets in the dict it returns
parse_jd_update(parsed) ==
  [parsed_jd |-> parsed, current_step |-> "jd_parsed"]

\* ------------------------------------------------------------------------
\* skill_gap_node
\* ------------------------------------------------------------------------

\* the retrieval query joined from all of required_skills
skill_gap_query_AllSkills(state) ==
  LET rs == dict_get(state.parsed_jd, K_skills_required, JArr(<<>>))
      jn == IF rs.ok THEN join(<<" ">>, rs.v) ELSE Raised
  IN  IF jn.ok
      THEN Ok([required_skills |-> rs.v,
               query |-> Q_SkillsExperience \o jn.v.s])
      ELSE Raised

\* required_skills and the retrieval query; raises when parsed_jd is no
\* dict, skills_required cannot be sliced, or an item is no string
skill_gap_query(state) ==
  LET rs == dict_get(state.parsed_jd, K_skills_required, JArr(<<>>))
      sl == IF rs.ok THEN slice_to(rs.v, 5) ELSE Raised
      jn == IF sl.ok THEN join(<<" ">>, sl.v) ELSE Raised
  IN  IF jn.ok
      THEN Ok([required_skills |-> rs.v,
               query |-> Q_SkillsExperience \o jn.v.s])
      ELSE Raised

skill_gap_vars(required_skills, resume_context) ==
  [skills |-> json_dumps(required_skills), resume |-> resume_context]

\* the fallback built from the five skills the retrieval query uses
skill_gap_default_FirstFive(required_skills) ==
  JObj(<<K_matched_skills, K_missing_skills, K_match_score, K_summary>>,
       <<JArr(<<>>),
         IF required_skills.t = "arr" THEN JArr(Take(required_skills.a, 5))
         ELSE required_skills,
         JNum(0), JStr(T_CouldNotAnalyze)>>)

skill_gap_default(required_skills) ==
  JObj(<<K_matched_skills, K_missing_skills, K_match_score, K_summary>>,
       <<JArr(<<>>), required_skills, JNum(0), JStr(T_CouldNotAnalyze)>>)

skill_gap_result(content, required_skills) ==
  LET r == try_parse(content)
  IN  IF r.ok THEN r.v ELSE skill_gap_default(required_skills)

\* skill_gap_node reading the keys with result.get(key), without defaults
skill_gap_update_NoDefaults(result) ==
  LET ma == dict_get(result, K_matched_skills, JNull)
      mi == dict_get(result, K_missing_skills, JNull)
      sc == dict_get(result, K_match_score, JNull)
  IN  IF ma.ok /\ mi.ok /\ sc.ok
      THEN Ok([matched_skills |-> ma.v, missing_skills |-> mi.v,
               match_score |-> sc.v, current_step |-> "skills_analyzed"])
      ELSE Raised

\* the keys skill_gap_node sets; result.get raises when result is no dict
skill_gap_update(result) ==
  LET ma == dict_get(result, K_matched_skills, JArr(<<>>))
      mi == dict_get(result, K_missing_skills, JArr(<<>>))
      sc == dict_get(result, K_match_score, JNum(0))
  IN  IF ma.ok /\ mi.ok /\ sc.ok
      THEN Ok([matched_skills |-> ma.v, missing_skills |-> mi.v,
               match_score |-> sc.v, current_step |-> "skills_analyzed"])
      ELSE Raised

\* ------------------------------------------------------------------------
\* cover_letter_node
\* ------------------------------------------------------------------------

cover_letter_query(state) ==
  LET jt == dict_get(state.parsed_jd, K_job_title, JStr(<<>>))
  IN  IF jt.ok THEN Ok(py_str(jt.v) \o Q_ExperienceSuffix) ELSE Raised

\* the dict handed to chain.invoke; the joins raise on a value that is not
\* an iterable of strings
cover_letter_vars(state, contact_context, resume_context) ==
  LET jt == dict_get(state.parsed_jd, K_job_title, JStr(<<>>))
      co == dict_get(state.parsed_jd, K_company, JStr(<<>>))
      ma == join(<<",", " ">>, state.matched_skills)
      mi == join(<<",", " ">>, state.missing_skills)
  IN  IF jt.ok /\ co.ok /\ ma.ok /\ mi.ok
      THEN Ok([job_title |-> jt.v, company |-> co.v,
               matched_skills |-> ma.v.s, missing_skills |-> mi.v.s,
               contact_context |-> contact_context,
               resume |-> resume_context])
      ELSE Raised

\* cover_letter_node storing the stripped text
cover_letter_update_Stripped(content) ==
  [cover_letter |-> JStr(strip(content)),
   current_step |-> "cover_letter_done"]

cover_letter_update(content) ==
  [cover_letter |-> JStr(content), current_step |-> "cover_letter_done"]

\* ------------------------------------------------------------------------
\* email_node
\* ------------------------------------------------------------------------

email_vars(state, contact_context) ==
  LET jt == dict_get(state.parsed_jd, K_job_title, JStr(<<>>))
      co == dict_get(state.parsed_jd, K_company, JStr(<<>>))
      sl == slice_to(state.matched_skills, 5)
      sk == IF sl.ok THEN join(<<",", " ">>, sl.v) ELSE Raised
  IN  IF jt.ok /\ co.ok /\ sk.ok
      THEN Ok([job_title |-> jt.v, company |-> co.v,
               score |-> state.match_score, skills |-> sk.v.s,
               contact_context |-> contact_context])
      ELSE Raised

\* email_node returning a dict that also resets cover_letter
email_update_ResetsCoverLetter(content) ==
  [email_draft |-> JStr(content), cover_letter |-> JStr(<<>>),
   current_step |-> "email_done"]

email_update(content) ==
  [email_draft |-> JStr(content), current_step |-> "email_done"]

\* ------------------------------------------------------------------------
\* interview_prep_node
\* ------------------------------------------------------------------------

interview_prep_vars(state) ==
  LET jt == dict_get(state.parsed_jd, K_job_title, JStr(<<>>))
      co == dict_get(state.parsed_jd, K_company, JStr(<<>>))
      re == dict_get(state.parsed_jd, K_responsibilities, JArr(<<>>))
      rs == IF re.ok THEN slice_to(re.v, 4) ELSE Raised
      ms == slice_to(state.missing_skills, 5)
      mj == IF ms.ok THEN join(<<",", " ">>, ms.v) ELSE Raised
  IN  IF jt.ok /\ co.ok /\ rs.ok /\ mj.ok
      THEN Ok([job_title |-> jt.v, company |-> co.v,
               responsibilities |-> json_dumps(rs.v),
               missing_skills |-> mj.v.s])
      ELSE Raised

interview_prep_default ==
  JObj(<<K_technical_questions, K_behavioral_questions, K_prep_tips>>,
       <<JArr(<<>>), JArr(<<>>), JStr(T_FocusTip)>>)

interview_prep_result(content) ==
  LET r == try_parse(content) IN IF r.ok THEN r.v ELSE interview_prep_default

\* interview_prep_node returning a dict without prep_tips
interview_prep_update_NoTips(result) ==
  LET tq == dict_get(result, K_technical_questions, JArr(<<>>))
      bq == dict_get(result, K_behavioral_questions, JArr(<<>>))
      aq == IF tq.ok /\ bq.ok THEN plus(tq.v, bq.v) ELSE Raised
  IN  IF aq.ok
      THEN Ok([interview_questions |-> aq.v, current_step |-> "complete"])
      ELSE Raised

\* the keys interview_prep_node sets; result.get raises when result is no
\* dict, + raises on operands that cannot be added
interview_prep_update(result) ==
  LET tq == dict_get(result, K_technical_questions, JArr(<<>>))
      bq == dict_get(result, K_behavioral_questions, JArr(<<>>))
      aq == IF tq.ok /\ bq.ok THEN plus(tq.v, bq.v) ELSE Raised
      pt == dict_get(result, K_prep_tips, JStr(<<>>))
  IN  IF aq.ok /\ pt.ok
      THEN Ok([interview_questions |-> aq.v, prep_tips |-> pt.v,
               current_step |-> "complete"])
      ELSE Raised

\* ------------------------------------------------------------------------
\* resume_store.py: the retrieval store is the sequence of stored chunks in
\* the order similarity_search ranks them
\* ------------------------------------------------------------------------

DefaultK == 5

\* a search whose ranking changes once an invocation of run_pipeline has
\* returned: after that only the first chunk is found
retrieve_resume_context_Unstable(chunks, query, k) ==
  JoinTexts(<<"\n", "\n">>,
            Take(chunks,
                 IF \E r \in DOMAIN runs : runs[r].pc = "returned"
                 THEN 1 ELSE k))

retrieve_resume_context(chunks, query, k) ==
  JoinTexts(<<"\n", "\n">>, Take(chunks, k))

\* ------------------------------------------------------------------------
\* graph.py
\* ------------------------------------------------------------------------

Nodes ==
  {"step_parse_jd", "step_skill_gap", "step_cover_letter", "step_email",
   "step_interview_prep"}

EntryPoint == "step_parse_jd"

\* build_graph with the edge out of step_skill_gap drawn to step_email
Edge_SkipCoverLetter ==
  [step_parse_jd |-> "step_skill_gap",
   step_skill_gap |-> "step_email",
   step_cover_letter |-> "step_email",
   step_email |-> "step_interview_prep",
   step_interview_prep |-> "END"]

\* the edges of build_graph
Edge ==
  [step_parse_jd |-> "step_skill_gap",
   step_skill_gap |-> "step_cover_letter",
   step_cover_letter |-> "step_email",
   step_email |-> "step_interview_prep",
   step_interview_prep |-> "END"]

\* the temperature of each node's get_llm call, in tenths
Temperature ==
  [step_parse_jd |-> 1, step_skill_gap |-> 1, step_cover_letter |-> 7,
   step_email |-> 5, step_interview_prep |-> 6]

initial_state(job_description, resume_text) ==
  [job_description |-> job_description,
   resume_text |-> resume_text,
   parsed_jd |-> JObj(<<>>, <<>>),
   matched_skills |-> JArr(<<>>),
   missing_skills |-> JArr(<<>>),
   match_score |-> JNum(0),
   cover_letter |-> JStr(<<>>),
   email_draft |-> JStr(<<>>),
   interview_questions |-> JArr(<<>>),
   prep_tips |-> JStr(<<>>),
   error |-> JNull,
   current_step |-> "start"]

\* {**state, key: value, ...} with error reset to None
Merge_ClearsError(state, update) ==
  [f \in DOMAIN state \cup DOMAIN update |->
     IF f = "error" THEN JNull
     ELSE IF f \in DOMAIN update THEN update[f] ELSE state[f]]

\* {**state, key: value, ...}
Merge(state, update) ==
  [f \in DOMAIN state \cup DOMAIN update |->
     IF f \in DOMAIN update THEN update[f] ELSE state[f]]

\* ------------------------------------------------------------------------
\* Inputs: the arguments of run_pipeline, the content of the retrieval
\* store, and the texts the Generator returns in each node
\* ------------------------------------------------------------------------

\* (job_description, resume_text): resume_text may be empty
Arguments ==
  {[job_description |-> JStr(<<"J", "D", "1">>), resume_text |-> JStr(<<>>)],
   [job_description |-> JStr(<<"J", "D", "2">>),
    resume_text |-> JStr(<<"C", "V">>)]}

\* the number of chunks of the non-empty store (more than k = 5)
NumChunks == 6

\* the number of required skills of the longest job description (more than
\* the 5 the retrieval query uses)
NumSkills == 6

Chunk(i) == <<"c">> \o NatText(i)

\* no resume ingested, or a resume of NumChunks chunks
Stores == {<<>>, [i \in 1..NumChunks |-> Chunk(i)]}

Str1(c) == JStr(<<c>>)

Str2(c, d) == JStr(<<c, d>>)

\* t between fence markers, the opening marker tagged json or not
Fenced(t, tagged) ==
  Fence \o (IF tagged THEN T_json ELSE <<>>) \o <<"\n">> \o t \o <<"\n">>
        \o Fence

Prose == <<"S", "o", "r", "r", "y", " ", "n", "o", " ", "J", "S", "O", "N">>

EmptyArrayText == <<"[", "]">>

NullText == <<"n", "u", "l", "l">>

\* an object whose text holds the fence marker inside a string value
TipsWithFence == JObj(<<K_prep_tips>>, <<JStr(<<"x">> \o Fence \o <<"y">>)>>)

JdFull ==
  JObj(<<K_job_title, K_company, K_skills_required, K_responsibilities>>,
       <<JStr(<<"D", "e", "v">>), JStr(<<"A", "c", "m", "e">>),
         JArr([i \in 1..NumSkills |-> JStr(<<"s">> \o NatText(i))]),
         JArr(<<Str2("r", "1"), Str2("r", "2"), Str2("r", "3"),
                Str2("r", "4"), Str2("r", "5")>>)>>)

JdSmall ==
  JObj(<<K_job_title, K_skills_required>>,
       <<JStr(<<"Q", "A">>), JArr(<<Str1("g"), Str1("h")>>)>>)

JdNullSkills == JObj(<<K_skills_required>>, <<JNull>>)

JdNumberSkill == JObj(<<K_skills_required>>, <<JArr(<<JNum(1)>>)>>)

JdBadResponsibilities ==
  JObj(<<K_skills_required, K_responsibilities>>, <<JArr(<<>>), JNum(7)>>)

\* the objects among the texts of each structured node
ParseJdObjects ==
  {JdFull, JdSmall, JdNullSkills, JdNumberSkill, JdBadResponsibilities}

ParseJdTexts ==
  {Prose, EmptyArrayText, NullText}
    \cup {json_dumps(x) : x \in ParseJdObjects}
    \cup {Fenced(json_dumps(JdSmall), b) : b \in BOOLEAN}

GapFull ==
  JObj(<<K_matched_skills, K_missing_skills, K_match_score, K_summary>>,
       <<JArr(<<Str1("a")>>), JArr(<<Str1("b"), Str1("c")>>), JNum(85),
         JStr(<<"o", "k">>)>>)

GapScoreOnly(x) == JObj(<<K_match_score>>, <<x>>)

GapNullMatched == JObj(<<K_matched_skills>>, <<JNull>>)

SkillGapObjects ==
  {GapFull, GapScoreOnly(JNum(150)), GapScoreOnly(JNum(-5)),
   GapScoreOnly(JStr(<<"h", "i", "g", "h">>)), GapScoreOnly(JNull),
   GapNullMatched}

SkillGapTexts ==
  {Prose, EmptyArrayText, <<"4", "2">>}
    \cup {json_dumps(x) : x \in SkillGapObjects}
    \cup {Fenced(json_dumps(GapFull), b) : b \in BOOLEAN}

\* free text, and free text that looks like a fenced JSON answer
Letter == <<"D", "e", "a", "r", " ", "H", "M", "\n">>

CoverLetterTexts == {Letter, <<" ">> \o Fenced(<<"{", "}">>, TRUE)}

EmailTexts == {Letter, <<" ">> \o Fenced(<<"{", "}">>, TRUE)}

PrepFull ==
  JObj(<<K_technical_questions, K_behavioral_questions, K_prep_tips>>,
       <<JArr(<<Str2("t", "1"), Str2("t", "2"), Str2("t", "3"),
                Str2("t", "4"), Str2("t", "5")>>),
         JArr(<<Str2("b", "1"), Str2("b", "2"), Str2("b", "3")>>),
         JStr(<<"t", "i", "p">>)>>)

PrepNullBehavioral ==
  JObj(<<K_technical_questions, K_behavioral_questions>>,
       <<JArr(<<Str2("t", "1")>>), JNull>>)

PrepNumbers ==
  JObj(<<K_technical_questions, K_behavioral_questions>>,
       <<JNum(1), JNum(2)>>)

InterviewPrepObjects ==
  {PrepFull, PrepNullBehavioral, PrepNumbers, JObj(<<>>, <<>>),
   TipsWithFence}

InterviewPrepTexts ==
  {Prose, EmptyArrayText}
    \cup {json_dumps(x) : x \in InterviewPrepObjects}
    \cup {Fenced(json_dumps(x), b) :
            x \in {PrepFull, TipsWithFence}, b \in BOOLEAN}

GeneratorTexts ==
  [step_parse_jd |-> ParseJdTexts, step_skill_gap |-> SkillGapTexts,
   step_cover_letter |-> CoverLetterTexts, step_email |-> EmailTexts,
   step_interview_prep |-> InterviewPrepTexts]

\* ------------------------------------------------------------------------
\* State
\* ------------------------------------------------------------------------

VARIABLES
  pc,        \* the node app.invoke runs next, or "returned" / "raised";
             \* "analyze_job" / "responded" around a request to /analyze
  args,      \* the arguments of run_pipeline
  rec,       \* the state dict threaded through the nodes
  store,     \* the chunks of the retrieval store
  result,    \* <<>>, or <<the dict run_pipeline returned>>
  fault,     \* "none"; "upstream": a Generator or Retriever call raised;
             \* "stage": a statement of a node raised
  calls,     \* the Retriever and Generator calls made, in order
  executed,  \* the nodes entered, in order
  writes,    \* per key of the state dict: the nodes that set it, in order
  gen,       \* per node: <<>>, or <<the text its Generator call returned>>
  payload    \* per node: <<>>, or <<the payload it parsed>>

vars ==
  <<pc, args, rec, store, result, fault, calls, executed, writes, gen,
    payload, http, runs, heap, memo, procs, lastAdded, observed>>

Fields == DOMAIN initial_state(JStr(<<>>), JStr(<<>>))

\* /analyze has sent no response
NoResponse == [branch |-> "none"]

RetrieveCall(node, query, k, raised) ==
  [op |-> "retrieve", node |-> node, query |-> query, k |-> k,
   raised |-> raised]

GenerateCall(node, variables, raised) ==
  [op |-> "generate", node |-> node, temperature |-> Temperature[node],
   vars |-> variables, raised |-> raised]

Init ==
  /\ pc = EntryPoint
  /\ args \in Arguments
  /\ rec = initial_state(args.job_description, args.resume_text)
  /\ store \in Stores
  /\ result = <<>>
  /\ fault = "none"
  /\ calls = <<>>
  /\ executed = <<>>
  /\ writes = [f \in Fields |-> <<>>]
  /\ gen = [n \in Nodes |-> <<>>]
  /\ payload = [n \in Nodes |-> <<>>]
  /\ http = NoResponse
  /\ runs = <<>>
  /\ heap = <<>>
  /\ memo = <<>>
  /\ procs = <<>>
  /\ lastAdded = <<>>
  /\ observed = {}

\* the graph catching a node's exception and following the node's edge
Abort_Continue(node, cs, kind, g, p) ==
  /\ pc' = IF Edge[node] = "END" THEN "returned" ELSE Edge[node]
  /\ result' = IF Edge[node] = "END" THEN <<rec>> ELSE result
  /\ fault' = kind
  /\ calls' = calls \o cs
  /\ executed' = Append(executed, node)
  /\ gen' = [gen EXCEPT ![node] = g]
  /\ payload' = [payload EXCEPT ![node] = p]
  /\ UNCHANGED <<args, rec, store, writes, http, runs, heap, memo,
                 procs, lastAdded, observed>>

\* an exception leaves the node and app.invoke and run_pipeline: no dict is
\* returned.  cs: the calls the node made, g: <<>> or the generated text,
\* p: <<>> or the parsed payload
Abort(node, cs, kind, g, p) ==
  /\ pc' = "raised"
  /\ fault' = kind
  /\ calls' = calls \o cs
  /\ executed' = Append(executed, node)
  /\ gen' = [gen EXCEPT ![node] = g]
  /\ payload' = [payload EXCEPT ![node] = p]
  /\ UNCHANGED <<args, rec, store, result, writes, http, runs, heap, memo,
                 procs, lastAdded, observed>>

\* the node returns {**state, update}; the graph follows the node's edge,
\* and at END app.invoke returns the dict
Finish(node, cs, content, p, update) ==
  /\ rec' = Merge(rec, update)
  /\ writes' = [f \in Fields |->
                  IF f \in DOMAIN update THEN Append(writes[f], node)
                  ELSE writes[f]]
  /\ calls' = calls \o cs
  /\ executed' = Append(executed, node)
  /\ gen' = [gen EXCEPT ![node] = <<content>>]
  /\ payload' = [payload EXCEPT ![node] = p]
  /\ pc' = IF Edge[node] = "END" THEN "returned" ELSE Edge[node]
  /\ result' = IF Edge[node] = "END" THEN <<rec'>> ELSE result
  /\ UNCHANGED <<args, store, fault, http, runs, heap, memo,
                 procs, lastAdded, observed>>

\* parse_jd_node calling the Generator a second time when the first text
\* does not parse
parse_jd_node_RetryOnParseFailure ==
  /\ pc = "step_parse_jd"
  /\ LET node == "step_parse_jd"
         gc(b) == GenerateCall(node, [jd |-> rec.job_description], b)
     IN  \/ Abort(node, <<gc(TRUE)>>, "upstream", <<>>, <<>>)
         \/ \E first \in GeneratorTexts[node] :
              IF try_parse(first).ok
              THEN Finish(node, <<gc(FALSE)>>, first,
                          <<parse_jd_parsed(first)>>,
                          parse_jd_update(parse_jd_parsed(first)))
              ELSE \E content \in GeneratorTexts[node] :
                     Finish(node, <<gc(FALSE), gc(FALSE)>>, content,
                            <<parse_jd_parsed(content)>>,
                            parse_jd_update(parse_jd_parsed(content)))

parse_jd_node ==
  /\ pc = "step_parse_jd"
  /\ LET node == "step_parse_jd"
         gc(b) == GenerateCall(node, [jd |-> rec.job_description], b)
     IN  \/ Abort(node, <<gc(TRUE)>>, "upstream", <<>>, <<>>)
         \/ \E content \in GeneratorTexts[node] :
              LET parsed == parse_jd_parsed(content)
              IN  Finish(node, <<gc(FALSE)>>, content, <<parsed>>,
                         parse_jd_update(parsed))

skill_gap_node ==
  /\ pc = "step_skill_gap"
  /\ LET node == "step_skill_gap"
         q == skill_gap_query(rec)
     IN  IF ~q.ok THEN Abort(node, <<>>, "stage", <<>>, <<>>)
         ELSE
           LET rc(b) == RetrieveCall(node, q.v.query, DefaultK, b)
               resume_context ==
                 retrieve_resume_context(store, q.v.query, DefaultK)
               gc(b) ==
                 GenerateCall(node,
                   skill_gap_vars(q.v.required_skills, resume_context), b)
           IN  \/ Abort(node, <<rc(TRUE)>>, "upstream", <<>>, <<>>)
               \/ Abort(node, <<rc(FALSE), gc(TRUE)>>, "upstream", <<>>,
                        <<>>)
               \/ \E content \in GeneratorTexts[node] :
                    LET res == skill_gap_result(content,
                                                q.v.required_skills)
                        upd == skill_gap_update(res)
                        cs  == <<rc(FALSE), gc(FALSE)>>
                    IN  IF upd.ok
                        THEN Finish(node, cs, content, <<res>>, upd.v)
                        ELSE Abort(node, cs, "stage", <<content>>, <<res>>)

cover_letter_node ==
  /\ pc = "step_cover_letter"
  /\ LET node == "step_cover_letter"
         q == cover_letter_query(rec)
     IN  IF ~q.ok THEN Abort(node, <<>>, "stage", <<>>, <<>>)
         ELSE
           LET rc1(b) == RetrieveCall(node, q.v, DefaultK, b)
               rc2(b) == RetrieveCall(node, Q_ContactCover, DefaultK, b)
               resume_context ==
                 retrieve_resume_context(store, q.v, DefaultK)
               contact_context ==
                 retrieve_resume_context(store, Q_ContactCover, DefaultK)
               v == cover_letter_vars(rec, contact_context, resume_context)
               rcs == <<rc1(FALSE), rc2(FALSE)>>
           IN  \/ Abort(node, <<rc1(TRUE)>>, "upstream", <<>>, <<>>)
               \/ Abort(node, <<rc1(FALSE), rc2(TRUE)>>, "upstream", <<>>,
                        <<>>)
               \/ IF ~v.ok THEN Abort(node, rcs, "stage", <<>>, <<>>)
                  ELSE
                    \/ Abort(node, rcs \o <<GenerateCall(node, v.v, TRUE)>>,
                             "upstream", <<>>, <<>>)
                    \/ \E content \in GeneratorTexts[node] :
                         Finish(node,
                                rcs \o <<GenerateCall(node, v.v, FALSE)>>,
                                content, <<>>, cover_letter_update(content))

email_node ==
  /\ pc = "step_email"
  /\ LET node == "step_email"
         rc(b) == RetrieveCall(node, Q_ContactEmail, DefaultK, b)
         contact_context ==
           retrieve_resume_context(store, Q_ContactEmail, DefaultK)
         v == email_vars(rec, contact_context)
     IN  \/ Abort(node, <<rc(TRUE)>>, "upstream", <<>>, <<>>)
         \/ IF ~v.ok THEN Abort(node, <<rc(FALSE)>>, "stage", <<>>, <<>>)
            ELSE
              \/ Abort(node, <<rc(FALSE), GenerateCall(node, v.v, TRUE)>>,
                       "upstream", <<>>, <<>>)
              \/ \E content \in GeneratorTexts[node] :
                   Finish(node,
                          <<rc(FALSE), GenerateCall(node, v.v, FALSE)>>,
                          content, <<>>, email_update(content))

interview_prep_node ==
  /\ pc = "step_interview_prep"
  /\ LET node == "step_interview_prep"
         v == interview_prep_vars(rec)
     IN  IF ~v.ok THEN Abort(node, <<>>, "stage", <<>>, <<>>)
         ELSE
           \/ Abort(node, <<GenerateCall(node, v.v, TRUE)>>, "upstream",
                    <<>>, <<>>)
           \/ \E content \in GeneratorTexts[node] :
                LET res == interview_prep_result(content)
                    upd == interview_prep_update(res)
                    cs  == <<GenerateCall(node, v.v, FALSE)>>
                IN  IF upd.ok
                    THEN Finish(node, cs, content, <<res>>, upd.v)
                    ELSE Abort(node, cs, "stage", <<content>>, <<res>>)

Next ==
  \/ parse_jd_node
  \/ skill_gap_node
  \/ cover_letter_node
  \/ email_node
  \/ interview_prep_node

Spec == Init /\ [][Next]_vars

\* ------------------------------------------------------------------------
\* The compiled graph invoked on a state dict whose error key holds a text
\* (GraphState.error is Any); the nodes are those of Next
\* ------------------------------------------------------------------------

ErrorText == <<"b", "o", "o", "m">>

InitErr ==
  /\ pc = EntryPoint
  /\ args \in Arguments
  /\ rec = [initial_state(args.job_description, args.resume_text)
              EXCEPT !.error = JStr(ErrorText)]
  /\ store \in Stores
  /\ result = <<>>
  /\ fault = "none"
  /\ calls = <<>>
  /\ executed = <<>>
  /\ writes = [f \in Fields |-> <<>>]
  /\ gen = [n \in Nodes |-> <<>>]
  /\ payload = [n \in Nodes |-> <<>>]
  /\ http = NoResponse
  /\ runs = <<>>
  /\ heap = <<>>
  /\ memo = <<>>
  /\ procs = <<>>
  /\ lastAdded = <<>>
  /\ observed = {}

SpecErr == InitErr /\ [][Next]_vars

\* ------------------------------------------------------------------------
\* routes.py: POST /analyze
\* ------------------------------------------------------------------------

\* bool(v)
truthy(v) ==
  CASE v.t = "null" -> FALSE
    [] v.t = "bool" -> v.b
    [] v.t = "num"  -> v.n # 0
    [] v.t = "str"  -> v.s # <<>>
    [] v.t = "arr"  -> v.a # <<>>
    [] v.t = "obj"  -> v.k # <<>>

\* the request is rejected only when job_description is the empty text
analyze_job_rejects_NoStrip(request) == request.job_description.s = <<>>

\* not request.job_description.strip()
analyze_job_rejects(request) == strip(request.job_description.s) = <<>>

\* the name final_state before run_pipeline has returned
Unbound == [current_step |-> "unbound"]

Response(status, branch) == [status |-> status, branch |-> branch]

\* the bodies of the requests: job_description empty, blank, or a text with
\* whitespace around it; resume_text defaults to ""
Requests ==
  {[job_description |-> JStr(<<>>), resume_text |-> JStr(<<>>)],
   [job_description |-> JStr(<<" ", "\n">>),
    resume_text |-> JStr(<<"C", "V">>)],
   [job_description |-> JStr(<<"J", "D", "1">>), resume_text |-> JStr(<<>>)],
   [job_description |-> JStr(<<" ", "J", "D", "2", "\n">>),
    resume_text |-> JStr(<<"C", "V">>)]}

\* the keyword arguments of AnalyzeResponse(...); .get raises when parsed_jd
\* is no dict
AnalyzeResponse_args(final_state) ==
  LET jt == dict_get(final_state.parsed_jd, K_job_title, JStr(<<>>))
      co == dict_get(final_state.parsed_jd, K_company, JStr(<<>>))
  IN  IF jt.ok /\ co.ok
      THEN Ok([job_title |-> jt.v, company |-> co.v,
               match_score |-> final_state.match_score,
               matched_skills |-> final_state.matched_skills,
               missing_skills |-> final_state.missing_skills,
               cover_letter |-> final_state.cover_letter,
               email_draft |-> final_state.email_draft,
               interview_questions |-> final_state.interview_questions,
               prep_tips |-> final_state.prep_tips])
      ELSE Raised

\* the declared type of each field of AnalyzeResponse
AnalyzeResponse ==
  [job_title |-> "str", company |-> "str", match_score |-> "num",
   matched_skills |-> "arr", missing_skills |-> "arr",
   cover_letter |-> "str", email_draft |-> "str",
   interview_questions |-> "arr", prep_tips |-> "str"]

\* every argument has the declared type of its field
AnalyzeResponse_exact(a) ==
  \A f \in DOMAIN AnalyzeResponse : a[f].t = AnalyzeResponse[f]

InitApi ==
  /\ pc = "analyze_job"
  /\ args \in Requests
  /\ rec = Unbound
  /\ store \in Stores
  /\ result = <<>>
  /\ fault = "none"
  /\ calls = <<>>
  /\ executed = <<>>
  /\ writes = [f \in Fields |-> <<>>]
  /\ gen = [n \in Nodes |-> <<>>]
  /\ payload = [n \in Nodes |-> <<>>]
  /\ http = NoResponse
  /\ runs = <<>>
  /\ heap = <<>>
  /\ memo = <<>>
  /\ procs = <<>>
  /\ lastAdded = <<>>
  /\ observed = {}

\* raise HTTPException(status_code=400): run_pipeline is not reached
analyze_job_reject ==
  /\ pc = "analyze_job"
  /\ analyze_job_rejects(args)
  /\ http' = Response(400, "blank")
  /\ pc' = "responded"
  /\ UNCHANGED <<args, rec, store, result, fault, calls, executed, writes,
                 gen, payload, runs, heap, memo,
                 procs, lastAdded, observed>>

\* run_pipeline(...) builds initial_state and invokes the graph
analyze_job_run_pipeline ==
  /\ pc = "analyze_job"
  /\ ~analyze_job_rejects(args)
  /\ rec' = initial_state(args.job_description, args.resume_text)
  /\ pc' = EntryPoint
  /\ UNCHANGED <<args, store, result, fault, calls, executed, writes, gen,
                 payload, http, runs, heap, memo,
                 procs, lastAdded, observed>>

\* an exception that left run_pipeline leaves analyze_job as well
analyze_job_unhandled ==
  /\ pc = "raised"
  /\ http' = Response(500, "unhandled")
  /\ pc' = "responded"
  /\ UNCHANGED <<args, rec, store, result, fault, calls, executed, writes,
                 gen, payload, runs, heap, memo,
                 procs, lastAdded, observed>>

\* run_pipeline returned final_state: a truthy error gives 500, otherwise
\* the AnalyzeResponse is built.  Arguments of the declared types validate;
\* on others the model library either converts them or raises.
analyze_job_respond ==
  /\ pc = "returned"
  /\ LET final_state == result[1]
         a == AnalyzeResponse_args(final_state)
     IN  IF truthy(final_state.error)
         THEN http' = Response(500, "error")
         ELSE IF ~a.ok THEN http' = Response(500, "unhandled")
         ELSE IF AnalyzeResponse_exact(a.v)
           THEN http' = Response(200, "ok")
         ELSE http' \in {Response(200, "ok"), Response(500, "unhandled")}
  /\ pc' = "responded"
  /\ UNCHANGED <<args, rec, store, result, fault, calls, executed, writes,
                 gen, payload, runs, heap, memo,
                 procs, lastAdded, observed>>

NextApi ==
  \/ analyze_job_reject
  \/ analyze_job_run_pipeline
  \/ Next
  \/ analyze_job_respond
  \/ analyze_job_unhandled

SpecApi == InitApi /\ [][NextApi]_vars

\* ------------------------------------------------------------------------
\* Concurrent invocations of run_pipeline (one per request being served),
\* their nodes interleaved in any order.  Each invocation builds its own
\* graph and its own initial_state dict; the retrieval store is shared and
\* only read.
\* ------------------------------------------------------------------------

Runs == {"r1", "r2"}

\* every invocation refers to the one dict of the first invocation
RecordOf_Shared(r) == "r1"

\* the dict an invocation builds (graph.py:52) is its own
RecordOf(r) == r

Refs == {RecordOf(r) : r \in Runs}

\* the arguments of the invocations: the same pair twice, or two pairs
ConcurrentArguments ==
  {a \in [Runs -> Arguments] : a["r1"].resume_text = JStr(<<>>)}

\* the texts the Generator returns to the nodes of concurrent invocations
ConcurrentTexts ==
  [step_parse_jd |-> {json_dumps(JdSmall), Prose},
   step_skill_gap |-> {json_dumps(GapFull), json_dumps(GapNullMatched)},
   step_cover_letter |-> CoverLetterTexts,
   step_email |-> {Letter},
   step_interview_prep |-> {json_dumps(PrepFull)}]

\* the statements of a node up to its chain.invoke: the variables of the
\* prompt, or the exception they raise
node_prompt(node, state, chunks) ==
  CASE node = "step_parse_jd" -> Ok([jd |-> state.job_description])
    [] node = "step_skill_gap" ->
         LET q == skill_gap_query(state)
         IN  IF q.ok
             THEN Ok(skill_gap_vars(q.v.required_skills,
                       retrieve_resume_context(chunks, q.v.query, DefaultK)))
             ELSE Raised
    [] node = "step_cover_letter" ->
         LET q == cover_letter_query(state)
         IN  IF q.ok
             THEN cover_letter_vars(state,
                    retrieve_resume_context(chunks, Q_ContactCover, DefaultK),
                    retrieve_resume_context(chunks, q.v, DefaultK))
             ELSE Raised
    [] node = "step_email" ->
         email_vars(state,
                    retrieve_resume_context(chunks, Q_ContactEmail, DefaultK))
    [] node = "step_interview_prep" -> interview_prep_vars(state)

\* the statements of a node after its chain.invoke returned content: the
\* keys it sets, or the exception they raise
node_update(node, state, content) ==
  CASE node = "step_parse_jd" -> Ok(parse_jd_update(parse_jd_parsed(content)))
    [] node = "step_skill_gap" ->
         skill_gap_update(
           skill_gap_result(content,
                            skill_gap_query(state).v.required_skills))
    [] node = "step_cover_letter" -> Ok(cover_letter_update(content))
    [] node = "step_email" -> Ok(email_update(content))
    [] node = "step_interview_prep" ->
         interview_prep_update(interview_prep_result(content))

\* the prompt a Generator call is made on
PromptKey(node, variables) ==
  [node |-> node, temperature |-> Temperature[node], vars |-> variables]

\* the texts the Generator may return: any text of the node, but the text
\* it returned before when it is deterministic and has seen the prompt
Generate(node, variables) ==
  LET seen == {m \in memo.seen : m.key = PromptKey(node, variables)}
  IN  IF memo.deterministic /\ seen # {}
      THEN {m.content : m \in seen}
      ELSE ConcurrentTexts[node]

Remember(node, variables, content) ==
  IF memo.deterministic
  THEN [memo EXCEPT !.seen =
          @ \cup {[key |-> PromptKey(node, variables), content |-> content]}]
  ELSE memo

InitConcurrent ==
  /\ pc = "concurrent"
  /\ args = <<>>
  /\ rec = Unbound
  /\ store = [i \in 1..NumChunks |-> Chunk(i)]
  /\ result = <<>>
  /\ fault = "none"
  /\ calls = <<>>
  /\ executed = <<>>
  /\ writes = [f \in Fields |-> <<>>]
  /\ gen = [n \in Nodes |-> <<>>]
  /\ payload = [n \in Nodes |-> <<>>]
  /\ http = NoResponse
  /\ runs \in {[r \in Runs |-> [pc |-> "idle", args |-> a[r],
                                answers |-> <<>>, out |-> <<>>]] :
                 a \in ConcurrentArguments}
  /\ heap = [x \in Refs |-> Unbound]
  /\ memo \in {[deterministic |-> d, seen |-> {}] : d \in BOOLEAN}
  /\ procs = <<>>
  /\ lastAdded = <<>>
  /\ observed = {}

SingleRunVars ==
  <<pc, args, rec, store, result, fault, calls, executed, writes, gen,
    payload, http, procs, lastAdded, observed>>

\* run_pipeline builds initial_state and hands it to the compiled graph
run_pipeline(r) ==
  /\ runs[r].pc = "idle"
  /\ heap' = [heap EXCEPT ![RecordOf(r)] =
                initial_state(runs[r].args.job_description,
                              runs[r].args.resume_text)]
  /\ runs' = [runs EXCEPT ![r].pc = EntryPoint]
  /\ UNCHANGED <<memo, SingleRunVars>>

\* an exception leaves the node and run_pipeline; answers: the texts the
\* Generator has returned to the invocation
run_raise(r, answers) ==
  /\ runs' = [runs EXCEPT ![r].pc = "raised", ![r].answers = answers]
  /\ UNCHANGED heap

\* the graph of invocation r runs its next node on the invocation's dict
run_node(r) ==
  /\ runs[r].pc \in Nodes
  /\ LET node  == runs[r].pc
         state == heap[RecordOf(r)]
         v     == node_prompt(node, state, store)
     IN  IF ~v.ok THEN run_raise(r, runs[r].answers) /\ UNCHANGED memo
         ELSE
           \/ /\ ~memo.deterministic
              /\ run_raise(r, runs[r].answers)
              /\ UNCHANGED memo
           \/ \E content \in Generate(node, v.v) :
                LET u == node_update(node, state, content)
                    answers == Append(runs[r].answers, content)
                IN  /\ memo' = Remember(node, v.v, content)
                    /\ IF ~u.ok THEN run_raise(r, answers)
                       ELSE
                         /\ heap' = [heap EXCEPT ![RecordOf(r)] =
                                       Merge(state, u.v)]
                         /\ runs' =
                              [runs EXCEPT
                                 ![r].answers = answers,
                                 ![r].pc = IF Edge[node] = "END"
                                           THEN "returned" ELSE Edge[node],
                                 ![r].out = IF Edge[node] = "END"
                                            THEN <<Merge(state, u.v)>>
                                            ELSE <<>>]
  /\ UNCHANGED SingleRunVars

NextConcurrent ==
  \/ \E r \in Runs : run_pipeline(r)
  \/ \E r \in Runs : run_node(r)

SpecConcurrent == InitConcurrent /\ [][NextConcurrent]_vars

\* ------------------------------------------------------------------------
\* resume_store.py ingest_resume, file_parser.py, and routes.py
\* POST /upload-resume and POST /ingest-resume.  /ingest-resume is a plain
\* function, served on a worker thread; /upload-resume is a coroutine, so
\* its calls of ingest_resume exclude each other but not those of
\* /ingest-resume nor the retrievals of /analyze.
\* ------------------------------------------------------------------------

\* len(resume_text.strip()) < 50
MinResumeChars == 50

\* the upper-case letters of the file names
LowerOf == [T |-> "t", X |-> "x", P |-> "p", D |-> "d", F |-> "f"]

\* s.lower()
lower(s) ==
  [i \in 1..Len(s) |->
     IF s[i] \in DOMAIN LowerOf THEN LowerOf[s[i]] ELSE s[i]]

\* a byte that is no UTF-8
BadByte == "BADBYTE"

\* file_bytes.decode("utf-8", errors="ignore")
decode(file_bytes) ==
  LET IsText(c) == c # BadByte IN SelectSeq(file_bytes, IsText)

\* Path(filename).suffix: from the last dot of the last path component,
\* "" when that component has no dot or only a leading or trailing one
path_suffix(filename) ==
  LET slashes == {i \in 1..Len(filename) : filename[i] = "/"}
      start == IF slashes = {} THEN 1
               ELSE 1 + CHOOSE i \in slashes : \A j \in slashes : j <= i
      name == Suffix(filename, start)
      dots == {i \in 1..Len(name) : name[i] = "."}
      last == CHOOSE i \in dots : \A j \in dots : j <= i
  IN  IF dots = {} THEN <<>>
      ELSE IF last = 1 \/ last = Len(name) THEN <<>>
      ELSE Suffix(name, last)

Raise(exc) == [ok |-> FALSE, exc |-> exc]

E_pdf == <<"p", "d", "f">>

E_docx == <<"d", "o", "c", "x">>

E_txt == <<"t", "x", "t">>

\* extract_text_from_file; library: what pypdf or python-docx does with
\* the bytes: Ok(text), Raise("ValueError") for bytes it cannot parse,
\* Raise("ImportError") when it is not installed
extract_text_from_file(file_bytes, filename, library) ==
  LET ext == lower(path_suffix(filename))
  IN  IF ext = <<".">> \o E_pdf
      THEN IF library.ok THEN Ok(strip(library.v)) ELSE library
      ELSE IF ext = <<".">> \o E_docx THEN library
      ELSE IF ext = <<".">> \o E_txt THEN Ok(decode(file_bytes))
      ELSE Raise("ValueError")

\* filename.split(".")[-1].lower() if "." in filename else ""
upload_ext(filename) ==
  IF \E i \in 1..Len(filename) : filename[i] = "."
  THEN LET pieces == split(filename, <<".">>)
       IN  lower(pieces[Len(pieces)])
  ELSE <<>>

Rejected(status) == [ok |-> FALSE, status |-> status]

Accepted(resume_text) == [ok |-> TRUE, resume_text |-> resume_text]

\* upload_resume_file without the check of the extracted length
upload_resume_file_NoLengthCheck(request) ==
  LET x == extract_text_from_file(request.file_bytes, request.filename,
                                  request.library)
  IN  IF upload_ext(request.filename) \notin {E_pdf, E_docx, E_txt}
      THEN Rejected(400)
      ELSE IF request.file_bytes = <<>> THEN Rejected(400)
      ELSE IF ~x.ok
        THEN Rejected(IF x.exc = "ValueError" THEN 422 ELSE 500)
      ELSE Accepted(x.v)

\* the statements of upload_resume_file before ingest_resume: the
\* HTTPException they raise, or the resume text they pass on
upload_resume_file(request) ==
  LET x == extract_text_from_file(request.file_bytes, request.filename,
                                  request.library)
  IN  IF upload_ext(request.filename) \notin {E_pdf, E_docx, E_txt}
      THEN Rejected(400)
      ELSE IF request.file_bytes = <<>> THEN Rejected(400)
      ELSE IF ~x.ok
        THEN Rejected(IF x.exc = "ValueError" THEN 422 ELSE 500)
      ELSE IF Len(strip(x.v)) < MinResumeChars THEN Rejected(422)
      ELSE Accepted(x.v)

\* the statements of ingest_resume_endpoint before ingest_resume
ingest_resume_endpoint(request) ==
  IF strip(request.resume_text) = <<>> THEN Rejected(400)
  ELSE Accepted(request.resume_text)

\* splitter.split_text on a text shorter than chunk_size (as all resumes
\* here are): the stripped text as one chunk, no chunk for a blank text
split_text(text) == IF strip(text) = <<>> THEN <<>> ELSE <<strip(text)>>

Procs == {"p1", "p2"}

Filler(c, n) == [i \in 1..n |-> c]

NoLibrary == Raise("ImportError")

IngestBody(resume_text) == [kind |-> "ingest", resume_text |-> resume_text]

UploadBody(filename, file_bytes, library) ==
  [kind |-> "upload", filename |-> filename, file_bytes |-> file_bytes,
   library |-> library]

\* resume texts of /ingest-resume: empty, blank, and two resumes
IngestBodies ==
  {IngestBody(<<>>), IngestBody(<<" ", "\n">>),
   IngestBody(<<"r", "1">>), IngestBody(<<" ", "r", "2", "\n">>)}

\* files of /upload-resume: one per check that can fail, and two resumes
UploadBodies ==
  {UploadBody(<<"c", "v", ".", "e", "x", "e">>, <<"x">>, NoLibrary),
   UploadBody(<<"c", "v">>, <<"x">>, NoLibrary),
   UploadBody(<<"c", "v", ".", "t", "x", "t">>, <<>>, NoLibrary),
   UploadBody(<<".", "t", "x", "t">>, Filler("h", MinResumeChars),
              NoLibrary),
   UploadBody(<<"c", "v", ".", "p", "d", "f">>, <<"x">>,
              Raise("ValueError")),
   UploadBody(<<"c", "v", ".", "d", "o", "c", "x">>, <<"x">>, NoLibrary),
   UploadBody(<<"c", "v", ".", "t", "x", "t">>,
              <<" ">> \o Filler("s", MinResumeChars - 1) \o <<BadByte, "\n">>,
              NoLibrary),
   UploadBody(<<"c", "v", ".", "T", "X", "T">>,
              <<BadByte>> \o Filler("t", MinResumeChars), NoLibrary),
   UploadBody(<<"c", "v", ".", "p", "d", "f">>, <<"x">>,
              Ok(<<" ">> \o Filler("p", MinResumeChars)))}

OldResume == <<"o", "l", "d">>

InitResume ==
  /\ pc = "resume"
  /\ args = <<>>
  /\ rec = Unbound
  /\ result = <<>>
  /\ fault = "none"
  /\ calls = <<>>
  /\ executed = <<>>
  /\ writes = [f \in Fields |-> <<>>]
  /\ gen = [n \in Nodes |-> <<>>]
  /\ payload = [n \in Nodes |-> <<>>]
  /\ http = NoResponse
  /\ runs = <<>>
  /\ heap = <<>>
  /\ memo = <<>>
  /\ \E old \in {<<>>, <<OldResume>>} :
       /\ store = old
       /\ lastAdded = old
  /\ procs \in [Procs -> {[pc |-> "request", request |-> b,
                           response |-> NoResponse, called |-> FALSE,
                           resume_text |-> <<>>] :
                            b \in IngestBodies \cup UploadBodies}]
  /\ observed = {}

OtherVars ==
  <<pc, args, rec, result, fault, calls, executed, writes, gen, payload,
    http, runs, heap, memo>>

\* a coroutine runs only while no other coroutine is inside ingest_resume
LoopFree(p) ==
  procs[p].request.kind = "upload" =>
    \A q \in Procs \ {p} :
      procs[q].request.kind = "upload" => procs[q].pc \notin {"delete", "add"}

\* the handler up to its call of ingest_resume
resume_request(p) ==
  /\ procs[p].pc = "request"
  /\ LoopFree(p)
  /\ LET v == IF procs[p].request.kind = "upload"
              THEN upload_resume_file(procs[p].request)
              ELSE ingest_resume_endpoint(procs[p].request)
     IN  procs' =
           IF v.ok
           THEN [procs EXCEPT ![p].pc = "delete", ![p].called = TRUE,
                              ![p].resume_text = v.resume_text]
           ELSE [procs EXCEPT ![p].pc = "responded",
                              ![p].response = Response(v.status, "check")]
  /\ UNCHANGED <<store, lastAdded, observed, OtherVars>>

\* vectorstore._collection.delete(where={"source": "resume"})
ingest_resume_delete(p) ==
  /\ procs[p].pc = "delete"
  /\ LoopFree(p)
  /\ store' = <<>>
  /\ procs' = [procs EXCEPT ![p].pc = "add"]
  /\ UNCHANGED <<lastAdded, observed, OtherVars>>

\* vectorstore.add_texts(chunks), after which the handler answers; or the
\* embedding call raises and the handler answers 500
ingest_resume_add(p) ==
  /\ procs[p].pc = "add"
  /\ LoopFree(p)
  /\ \/ /\ store' = store \o split_text(procs[p].resume_text)
        /\ lastAdded' = <<procs[p].resume_text>>
        /\ procs' = [procs EXCEPT ![p].pc = "responded",
                                  ![p].response = Response(200, "ok")]
     \/ /\ procs' = [procs EXCEPT ![p].pc = "responded",
                                  ![p].response = Response(500, "unhandled")]
        /\ UNCHANGED <<store, lastAdded>>
  /\ UNCHANGED <<observed, OtherVars>>

\* a node of a pipeline run calls retrieve_resume_context
resume_retrieve ==
  /\ observed' =
       observed \cup
         {[text |-> retrieve_resume_context(store, Q_ContactEmail, DefaultK),
           ingested |-> lastAdded # <<>>]}
  /\ UNCHANGED <<store, lastAdded, procs, OtherVars>>

NextResume ==
  \/ \E p \in Procs : resume_request(p)
  \/ \E p \in Procs : ingest_resume_delete(p)
  \/ \E p \in Procs : ingest_resume_add(p)
  \/ resume_retrieve

SpecResume == InitResume /\ [][NextResume]_vars

\* ------------------------------------------------------------------------
\* Properties
\* ------------------------------------------------------------------------

StageOrder ==
  <<"step_parse_jd", "step_skill_gap", "step_cover_letter", "step_email",
    "step_interview_prep">>

StepLabels ==
  <<"start", "jd_parsed", "skills_analyzed", "cover_letter_done",
    "email_done", "complete">>

StructuredNodes == {"step_parse_jd", "step_skill_gap", "step_interview_prep"}

\* the keys each node is to set besides current_step
Owned ==
  [step_parse_jd |-> {"parsed_jd"},
   step_skill_gap |-> {"matched_skills", "missing_skills", "match_score"},
   step_cover_letter |-> {"cover_letter"},
   step_email |-> {"email_draft"},
   step_interview_prep |-> {"interview_questions", "prep_tips"}]

DerivedFields == UNION {Owned[n] : n \in Nodes}

OwnerOf(f) == CHOOSE n \in Nodes : f \in Owned[n]

IsPrefix(a, b) == Len(a) <= Len(b) /\ a = SubSeq(b, 1, Len(a))

\* the number of nodes that have returned
Completed == IF pc = "raised" THEN Len(executed) - 1 ELSE Len(executed)

IsGenerate(c) == c.op = "generate"

GenerateCalls == SelectSeq(calls, IsGenerate)

NodesOf(cs) == [i \in 1..Len(cs) |-> cs[i].node]

\* required_skills as skill_gap_node reads it from parsed_jd
RequiredSkills == dict_get(rec.parsed_jd, K_skills_required, JArr(<<>>)).v

\* the payload a structured node obtains from the text t
StagePayload(n, t) ==
  CASE n = "step_parse_jd" -> parse_jd_parsed(t)
    [] n = "step_skill_gap" -> skill_gap_result(t, RequiredSkills)
    [] n = "step_interview_prep" -> interview_prep_result(t)

\* the default payload of a structured node
StageDefault(n) ==
  CASE n = "step_parse_jd" -> parse_jd_default
    [] n = "step_skill_gap" -> skill_gap_default(RequiredSkills)
    [] n = "step_interview_prep" -> interview_prep_default

StageObjects ==
  [step_parse_jd |-> ParseJdObjects, step_skill_gap |-> SkillGapObjects,
   step_interview_prep |-> InterviewPrepObjects]

\* C1: the nodes run in the order Parse-JD, Skill-Gap, Cover-Letter, Email,
\* Interview-Prep, none skipped, repeated or reordered; current_step moves
\* through start, jd_parsed, skills_analyzed, cover_letter_done, email_done,
\* complete in that order; parsed_jd has been written by Parse-JD when
\* Skill-Gap runs; a run that returns has run all five, Interview-Prep last.
C1_StageOrder ==
  /\ [](/\ IsPrefix(executed, StageOrder)
        /\ rec.current_step = StepLabels[Completed + 1]
        /\ pc \in Nodes => pc = StageOrder[Len(executed) + 1]
        /\ Len(executed) >= 2 => writes.parsed_jd = <<"step_parse_jd">>
        /\ pc = "returned" => executed = StageOrder)
  /\ [][rec'.current_step # rec.current_step =>
          \E i \in 1..5 : /\ rec.current_step = StepLabels[i]
                          /\ rec'.current_step = StepLabels[i + 1]]_vars

C1_Witness ==
  /\ pc = "returned"
  /\ executed = StageOrder
  /\ rec.current_step = "complete"

\* C2: when no Generator or Retriever call raises, run_pipeline does not
\* raise, whatever text the Generator returned.
C2_NoRaiseWithoutUpstreamFailure ==
  (\A i \in 1..Len(calls) : ~calls[i].raised) => pc # "raised"

\* C3: a structured node always obtains a payload from the generated text,
\* and when the normalized text is not a JSON object the payload is the
\* node's default payload.
C3_DefaultUnlessObject ==
  \A n \in StructuredNodes :
    gen[n] # <<>> =>
      /\ payload[n] # <<>>
      /\ LET r == try_parse(gen[n][1])
         IN  ~(r.ok /\ r.v.t = "obj") => payload[n][1] = StageDefault(n)

\* C4: match_score in the state dict, and in the dict run_pipeline returns,
\* is an integer in 0..100.
C4_MatchScoreInRange ==
  /\ rec.match_score.t = "num"
  /\ rec.match_score.n \in 0..100
  /\ result # <<>> => result[1].match_score = rec.match_score

\* C5: a Generator or Retriever call that raises is the last call of the
\* run; the run has raised, no dict is returned, and the node that made the
\* call is the last node entered.
C5_UpstreamFailureIsFatal ==
  \A i \in 1..Len(calls) :
    calls[i].raised =>
      /\ i = Len(calls)
      /\ pc = "raised"
      /\ fault = "upstream"
      /\ result = <<>>
      /\ executed[Len(executed)] = calls[i].node

C5_Witness ==
  /\ pc = "raised"
  /\ Len(executed) = 3
  /\ calls # <<>>
  /\ calls[Len(calls)].raised
  /\ calls[Len(calls)].op = "retrieve"

\* C6: a step of a node changes no key of the state dict but the keys the
\* node owns and current_step, and changes no owned key that was already
\* written; job_description and resume_text stay the arguments of
\* run_pipeline, also in the returned dict.
C6_Frame ==
  /\ [](/\ rec.job_description = args.job_description
        /\ rec.resume_text = args.resume_text
        /\ result # <<>> =>
             /\ result[1].job_description = args.job_description
             /\ result[1].resume_text = args.resume_text)
  /\ [][\A f \in Fields :
          rec'[f] # rec[f] =>
            /\ f \in Owned[pc] \cup {"current_step"}
            /\ f \in DerivedFields => writes[f] = <<>>]_vars

C6_Witness ==
  /\ pc = "returned"
  /\ rec.parsed_jd = JdFull
  /\ rec.matched_skills # JArr(<<>>)
  /\ rec.cover_letter = JStr(Letter)
  /\ rec.email_draft = JStr(Letter)
  /\ rec.interview_questions # JArr(<<>>)
  /\ rec.job_description = args.job_description

\* C7: when the text the Generator returned to Skill-Gap does not parse as
\* JSON, the node has written matched_skills = [], missing_skills = all of
\* skills_required of parsed_jd, match_score = 0.
C7_SkillGapFallback ==
  (gen["step_skill_gap"] # <<>> /\ ~try_parse(gen["step_skill_gap"][1]).ok)
    => /\ writes.missing_skills = <<"step_skill_gap">>
       /\ rec.matched_skills = JArr(<<>>)
       /\ rec.missing_skills = RequiredSkills
       /\ rec.match_score = JNum(0)

C7_Witness ==
  /\ gen["step_skill_gap"] = <<Prose>>
  /\ rec.parsed_jd = JdFull
  /\ rec.missing_skills.t = "arr"
  /\ Len(rec.missing_skills.a) > 5

\* C8: a structured node obtains from an object text between fence markers,
\* tagged json or not, the payload it obtains from the text alone.
C8_FenceTransparent ==
  \A n \in StructuredNodes :
    \A x \in StageObjects[n] :
      \A b \in BOOLEAN :
        gen[n] = <<Fenced(json_dumps(x), b)>> =>
          payload[n] = <<StagePayload(n, json_dumps(x))>>

\* C9: the dict run_pipeline returns is the state dict at complete, every
\* node has run exactly once, every derived key was set exactly once, by
\* its owner, the inputs and error by no node; a derived key no node has set
\* yet holds its initial value.
C9_FullyPopulated ==
  /\ \A f \in DerivedFields :
       writes[f] = <<>> =>
         rec[f] = initial_state(args.job_description, args.resume_text)[f]
  /\ result # <<>> =>
       /\ pc = "returned"
       /\ result[1] = rec
       /\ rec.current_step = "complete"
       /\ \A n \in Nodes :
            Cardinality({i \in 1..Len(executed) : executed[i] = n}) = 1
       /\ \A f \in DerivedFields : writes[f] = <<OwnerOf(f)>>
       /\ \A f \in {"job_description", "resume_text", "error"} :
            writes[f] = <<>>

C9_Witness ==
  /\ result # <<>>
  /\ result[1].prep_tips = JStr(<<"t", "i", "p">>)
  /\ result[1].match_score = JNum(85)

\* C10: the Generator calls of a run are one per node in node order: a node
\* never calls twice, a node that returned called exactly once (also when
\* its text did not parse), and a run that returned made five calls.
C10_OneGeneratorCallPerStage ==
  /\ IsPrefix(NodesOf(GenerateCalls), StageOrder)
  /\ Len(GenerateCalls) >= Completed
  /\ \A n \in Nodes :
       gen[n] # <<>> =>
         Cardinality({i \in 1..Len(calls) :
                        calls[i].op = "generate" /\ calls[i].node = n}) = 1
  /\ pc = "returned" => NodesOf(GenerateCalls) = StageOrder

C10_Witness ==
  /\ pc = "returned"
  /\ Len(GenerateCalls) = 5
  /\ gen["step_parse_jd"] = <<Prose>>
  /\ gen["step_interview_prep"] = <<Prose>>

\* the places of calls that hold the Retriever calls of node n
RetrieveIdx(n) ==
  {i \in 1..Len(calls) : calls[i].op = "retrieve" /\ calls[i].node = n}

RetrieveCount ==
  [step_parse_jd |-> 0, step_skill_gap |-> 1, step_cover_letter |-> 2,
   step_email |-> 1, step_interview_prep |-> 0]

\* C11: a node never makes more Retriever calls than Parse-JD 0, Skill-Gap
\* 1, Cover-Letter 2, Email 1, Interview-Prep 0, and has made exactly that
\* many, all of them, before its Generator call; every call has k = 5;
\* Skill-Gap's query is built from at most the first 5 required skills;
\* Cover-Letter asks the experience query, then the identity query; Email
\* asks the identity query.
C11_RetrieverCalls ==
  /\ \A n \in Nodes : Cardinality(RetrieveIdx(n)) <= RetrieveCount[n]
  /\ \A i \in 1..Len(calls) :
       /\ calls[i].op = "retrieve" => calls[i].k = 5
       /\ calls[i].op = "generate" =>
            /\ Cardinality(RetrieveIdx(calls[i].node))
                 = RetrieveCount[calls[i].node]
            /\ \A j \in RetrieveIdx(calls[i].node) : j < i
  /\ \A i \in RetrieveIdx("step_skill_gap") :
       RequiredSkills.t = "arr" =>
         calls[i].query =
           Q_SkillsExperience
             \o JoinTexts(<<" ">>,
                          [m \in 1..(IF Len(RequiredSkills.a) < 5
                                     THEN Len(RequiredSkills.a) ELSE 5) |->
                             RequiredSkills.a[m].s])
  /\ \A i \in RetrieveIdx("step_cover_letter") :
       IF \E j \in RetrieveIdx("step_cover_letter") : j < i
       THEN calls[i].query = Q_ContactCover
       ELSE /\ calls[i].query # Q_ContactCover
            /\ SubSeq(calls[i].query,
                      Len(calls[i].query) - Len(Q_ExperienceSuffix) + 1,
                      Len(calls[i].query)) = Q_ExperienceSuffix
  /\ \A i \in RetrieveIdx("step_email") : calls[i].query = Q_ContactEmail

C11_Witness ==
  /\ pc = "returned"
  /\ rec.parsed_jd = JdFull
  /\ Cardinality({i \in 1..Len(calls) : calls[i].op = "retrieve"}) = 4
  /\ store # <<>>

\* the value of key in the payload p, default when p has no such key
PayloadGet(p, key, default) == dict_get(p, key, default).v

\* C14: Interview-Prep writes interview_questions = the parsed
\* technical_questions followed by the parsed behavioral_questions, each in
\* its generated order (8 entries for 5 technical and 3 behavioral), and on
\* a text that does not parse interview_questions = [] and prep_tips =
\* "Focus on your experience with the matched skills."
C14_InterviewQuestions ==
  LET n == "step_interview_prep"
  IN  (gen[n] # <<>> /\ pc = "returned") =>
        LET r  == try_parse(gen[n][1])
            tq == PayloadGet(payload[n][1], K_technical_questions,
                             JArr(<<>>))
            bq == PayloadGet(payload[n][1], K_behavioral_questions,
                             JArr(<<>>))
        IN  /\ ~r.ok =>
                 /\ rec.interview_questions = JArr(<<>>)
                 /\ rec.prep_tips = JStr(T_FocusTip)
            /\ (r.ok /\ tq.t = "arr" /\ bq.t = "arr") =>
                 /\ payload[n][1] = r.v
                 /\ rec.interview_questions.t = "arr"
                 /\ Len(rec.interview_questions.a) = Len(tq.a) + Len(bq.a)
                 /\ \A i \in 1..Len(tq.a) :
                      rec.interview_questions.a[i] = tq.a[i]
                 /\ \A i \in 1..Len(bq.a) :
                      rec.interview_questions.a[Len(tq.a) + i] = bq.a[i]
            /\ (r.ok /\ r.v = PrepFull) =>
                 /\ Len(rec.interview_questions.a) = 8
                 /\ rec.interview_questions.a[1] = Str2("t", "1")
                 /\ rec.interview_questions.a[6] = Str2("b", "1")
                 /\ rec.prep_tips = JStr(<<"t", "i", "p">>)

C14_Witness ==
  /\ pc = "returned"
  /\ gen["step_interview_prep"] = <<json_dumps(PrepFull)>>
  /\ Len(rec.interview_questions.a) = 8

C14_WitnessFallback ==
  /\ pc = "returned"
  /\ gen["step_interview_prep"] = <<Prose>>
  /\ rec.interview_questions = JArr(<<>>)

FreeTextNodes == {"step_cover_letter", "step_email"}

FreeTextField ==
  [step_cover_letter |-> "cover_letter", step_email |-> "email_draft"]

\* the node the run was in when it ended, "" when none has started
LastNode == IF executed = <<>> THEN "" ELSE executed[Len(executed)]

\* C15: with an empty retrieval store (every Retriever call returns "")
\* Cover-Letter and Email do not raise when the Generator answers, and each
\* one that has run made one Generator call, with an empty contact context,
\* and stored its text, so the field is non-empty when the text is.
C15_EmptyRetrieval ==
  store = <<>> =>
    \A n \in FreeTextNodes :
      /\ ~(pc = "raised" /\ fault = "stage" /\ LastNode = n)
      /\ gen[n] # <<>> =>
           /\ rec[FreeTextField[n]] = JStr(gen[n][1])
           /\ gen[n][1] # <<>> => rec[FreeTextField[n]] # JStr(<<>>)
           /\ \E i \in 1..Len(calls) :
                /\ calls[i].op = "generate"
                /\ calls[i].node = n
                /\ calls[i].vars.contact_context = <<>>
                /\ \A j \in 1..Len(calls) :
                     (calls[j].op = "generate" /\ calls[j].node = n)
                       => j = i

\* C18: when the text the Generator returned to Parse-JD does not parse,
\* parsed_jd is {job_title: "Unknown", company: "Unknown", skills_required:
\* [], responsibilities: [], experience_years: "Unknown", location:
\* "Unknown"}, and the run goes on to Skill-Gap, which reads an empty
\* required-skill list.
C18_ParseJdFallback ==
  LET n == "step_parse_jd"
  IN  (gen[n] # <<>> /\ ~try_parse(gen[n][1]).ok) =>
        /\ rec.parsed_jd =
             JObj(<<K_job_title, K_company, K_skills_required,
                    K_responsibilities, K_experience_years, K_location>>,
                  <<JStr(<<"U", "n", "k", "n", "o", "w", "n">>),
                    JStr(<<"U", "n", "k", "n", "o", "w", "n">>),
                    JArr(<<>>), JArr(<<>>),
                    JStr(<<"U", "n", "k", "n", "o", "w", "n">>),
                    JStr(<<"U", "n", "k", "n", "o", "w", "n">>)>>)
        /\ Len(executed) = 1 => pc = "step_skill_gap"
        /\ \A i \in 1..Len(calls) :
             /\ (calls[i].op = "retrieve"
                   /\ calls[i].node = "step_skill_gap")
                  => calls[i].query = Q_SkillsExperience
             /\ (calls[i].op = "generate"
                   /\ calls[i].node = "step_skill_gap")
                  => calls[i].vars.skills = <<"[", "]">>
        /\ (Len(executed) = 2 /\ fault = "stage")
             => gen["step_skill_gap"] # <<>>

C18_Witness ==
  /\ gen["step_parse_jd"] = <<Prose>>
  /\ gen["step_skill_gap"] # <<>>
  /\ rec.current_step = "skills_analyzed"
  /\ RequiredSkills = JArr(<<>>)

\* C19: cover_letter and email_draft are the exact texts the Generator
\* returned to Cover-Letter and Email: not stripped, not unfenced, not
\* parsed.
C19_Verbatim ==
  \A n \in FreeTextNodes :
    gen[n] # <<>> => rec[FreeTextField[n]] = JStr(gen[n][1])

C19_Witness ==
  /\ pc = "returned"
  /\ gen["step_cover_letter"] = <<<<" ">> \o Fenced(<<"{", "}">>, TRUE)>>
  /\ rec.cover_letter = JStr(<<" ">> \o Fenced(<<"{", "}">>, TRUE))
  /\ rec.email_draft = JStr(<<" ">> \o Fenced(<<"{", "}">>, TRUE))

\* C16: with error set in the state dict a node starts on, the node runs as
\* always: every node that has returned made its Generator call and set its
\* own keys, no node sets error, and the dict app.invoke returns holds the
\* error text unchanged.
C16_ErrorPropagates ==
  /\ rec.error = JStr(ErrorText)
  /\ writes.error = <<>>
  /\ \A i \in 1..Completed :
       LET n == executed[i]
       IN  /\ gen[n] # <<>>
           /\ \E j \in 1..Len(calls) :
                /\ calls[j].op = "generate"
                /\ calls[j].node = n
                /\ ~calls[j].raised
           /\ \A f \in Owned[n] : writes[f] = <<n>>
  /\ pc = "returned" =>
       /\ executed = StageOrder
       /\ result = <<rec>>
       /\ result[1].error = JStr(ErrorText)

C16_Witness ==
  /\ pc = "returned"
  /\ result # <<>>
  /\ result[1].error = JStr(ErrorText)
  /\ result[1].cover_letter = JStr(Letter)
  /\ gen["step_interview_prep"] = <<json_dumps(PrepFull)>>

\* every character of s is whitespace
Blank(s) == \A i \in 1..Len(s) : s[i] \in Whitespace

\* C17: a request to /analyze whose job_description is empty or only
\* whitespace is answered 400 and nothing else: no state dict is built, no
\* node runs, and no Retriever or Generator call is made.
C17_BlankRejected ==
  Blank(args.job_description.s) =>
    /\ rec = Unbound
    /\ result = <<>>
    /\ executed = <<>>
    /\ calls = <<>>
    /\ pc \in {"analyze_job", "responded"}
    /\ http \in {NoResponse, Response(400, "blank")}
    /\ pc = "responded" => http = Response(400, "blank")

C17_Witness ==
  /\ args.job_description = JStr(<<" ", "\n">>)
  /\ pc = "responded"
  /\ http = Response(400, "blank")
  /\ calls = <<>>

\* C20: no node sets error: the state dict holds error = None all through a
\* run, so does every dict run_pipeline returns, and /analyze never answers
\* from its final_state["error"] branch.
C20_ErrorNeverSet ==
  /\ writes.error = <<>>
  /\ rec # Unbound => rec.error = JNull
  /\ result # <<>> => result[1].error = JNull
  /\ http # Response(500, "error")

C20_Witness ==
  /\ pc = "responded"
  /\ gen["step_parse_jd"] = <<Prose>>
  /\ result # <<>>
  /\ result[1].error = JNull
  /\ http = Response(200, "ok")

RECURSIVE AloneFrom(_, _, _, _)
\* the dict an invocation holds when its nodes, from node on, ran with
\* nothing else running and the Generator returned answers[i], ...
AloneFrom(state, node, answers, i) ==
  IF node = "END" \/ i > Len(answers) THEN state
  ELSE LET u == node_update(node, state, answers[i])
       IN  IF u.ok
           THEN AloneFrom(Merge(state, u.v), Edge[node], answers, i + 1)
           ELSE state

Alone(a, answers) ==
  AloneFrom(initial_state(a.job_description, a.resume_text), EntryPoint,
            answers, 1)

\* C12: invocations of run_pipeline whose nodes interleave hold distinct
\* dicts, and the dict of each is at every moment the one the invocation
\* builds alone from its arguments and the texts its own Generator calls
\* returned, whatever the other invocation does; so is the dict it returns.
C12_Independent ==
  /\ \A r1, r2 \in Runs : r1 # r2 => RecordOf(r1) # RecordOf(r2)
  /\ \A r \in Runs :
       /\ runs[r].pc = "idle" => heap[RecordOf(r)] = Unbound
       /\ runs[r].pc # "idle" =>
            heap[RecordOf(r)] = Alone(runs[r].args, runs[r].answers)
       /\ runs[r].pc = "returned" =>
            /\ Len(runs[r].answers) = 5
            /\ runs[r].out = <<Alone(runs[r].args, runs[r].answers)>>

C12_Witness ==
  /\ runs["r1"].pc = "step_email"
  /\ runs["r2"].pc = "returned"
  /\ runs["r1"].args # runs["r2"].args
  /\ heap["r1"].parsed_jd # heap["r2"].parsed_jd

\* C13: with a Generator that is a function of the prompt and an unchanged
\* retrieval store, two invocations of run_pipeline on the same
\* (job_description, resume_text) that return, return equal dicts.
C13_Deterministic ==
  \A r1, r2 \in Runs :
    (/\ memo.deterministic
     /\ runs[r1].args = runs[r2].args
     /\ runs[r1].pc = "returned"
     /\ runs[r2].pc = "returned")
      => runs[r1].out = runs[r2].out

C13_Witness ==
  /\ memo.deterministic
  /\ runs["r1"].args = runs["r2"].args
  /\ runs["r1"].pc = "returned"
  /\ runs["r2"].pc = "returned"
  /\ runs["r1"].out = runs["r2"].out
  /\ runs["r1"].out[1].parsed_jd = JdSmall

\* the JSON object obj has the key key
HasKey(obj, key) == \E i \in 1..Len(obj.k) : obj.k[i] = key

\* C21: when the text the Generator returned to Skill-Gap parses to a JSON
\* object, the node returns, and for a key the object lacks it writes
\* matched_skills = [], missing_skills = [] (not the required skills) and
\* match_score = 0; a key the object has is written as the object gives it.
C21_AbsentKeyDefaults ==
  LET n == "step_skill_gap"
  IN  gen[n] # <<>> =>
        LET r == try_parse(gen[n][1])
        IN  (r.ok /\ r.v.t = "obj") =>
              /\ writes.matched_skills = <<n>>
              /\ writes.missing_skills = <<n>>
              /\ writes.match_score = <<n>>
              /\ ~HasKey(r.v, K_matched_skills)
                   => rec.matched_skills = JArr(<<>>)
              /\ ~HasKey(r.v, K_missing_skills)
                   => rec.missing_skills = JArr(<<>>)
              /\ ~HasKey(r.v, K_match_score) => rec.match_score = JNum(0)
              /\ \A i \in 1..Len(r.v.k) :
                   /\ r.v.k[i] = K_matched_skills
                        => rec.matched_skills = r.v.v[i]
                   /\ r.v.k[i] = K_missing_skills
                        => rec.missing_skills = r.v.v[i]
                   /\ r.v.k[i] = K_match_score
                        => rec.match_score = r.v.v[i]

C21_Witness ==
  /\ rec.parsed_jd = JdFull
  /\ Len(RequiredSkills.a) = NumSkills
  /\ gen["step_skill_gap"] = <<json_dumps(GapScoreOnly(JNum(150)))>>
  /\ rec.missing_skills = JArr(<<>>)
  /\ rec.matched_skills = JArr(<<>>)
  /\ rec.match_score = JNum(150)

C21_WitnessNoScore ==
  /\ gen["step_skill_gap"] = <<json_dumps(GapNullMatched)>>
  /\ rec.match_score = JNum(0)
  /\ rec.missing_skills = JArr(<<>>)

\* every call of ingest_resume made so far has returned
IngestsComplete ==
  \A p \in Procs :
    /\ procs[p].pc = "responded"
    /\ procs[p].response # Response(500, "unhandled")

\* C22: once every ingest_resume call has returned, the store holds the
\* chunks of one resume, the one whose add step ran last; and once a first
\* ingest has completed no retrieve_resume_context call finds the store
\* empty.
C22_OneResume ==
  (\A p \in Procs : procs[p].response # Response(500, "unhandled")) =>
    /\ (IngestsComplete /\ lastAdded # <<>>)
         => store = split_text(lastAdded[1])
    /\ \A o \in observed : o.ingested => o.text # <<>>

\* the body b fails a check of its handler: empty or blank resume text;
\* unsupported extension, empty file, extraction failure, or fewer than
\* 50 characters in the stripped extracted text
FailsCheck(b) ==
  IF b.kind = "ingest" THEN Blank(b.resume_text)
  ELSE LET x == extract_text_from_file(b.file_bytes, b.filename, b.library)
       IN  \/ upload_ext(b.filename) \notin {E_pdf, E_docx, E_txt}
           \/ b.file_bytes = <<>>
           \/ ~x.ok
           \/ x.ok /\ Len(strip(x.v)) < 50

\* the request of p was answered by a check of its handler, or will be
CheckedOut(p) ==
  /\ ~procs[p].called
  /\ procs[p].pc \in {"request", "responded"}
  /\ procs[p].pc = "responded" =>
       /\ procs[p].response.branch = "check"
       /\ procs[p].response.status \in {400, 422, 500}

\* C23: a request to /upload-resume or /ingest-resume that fails a check is
\* answered with an error without calling ingest_resume, the step that
\* answers it leaves the store as it is, and the store changes only in the
\* delete and add steps of a request that passed every check.
C23_RejectedLeavesStore ==
  /\ [](\A p \in Procs :
          /\ FailsCheck(procs[p].request) => CheckedOut(p)
          /\ procs[p].response.branch = "check"
               => FailsCheck(procs[p].request) /\ ~procs[p].called)
  /\ [][\A p \in Procs :
          (procs[p].pc = "request" /\ procs'[p].pc = "responded")
            => store' = store]_vars
  /\ [][store' # store =>
          \E p \in Procs :
            /\ ~FailsCheck(procs[p].request)
            /\ procs[p].pc \in {"delete", "add"}
            /\ procs'[p].pc # procs[p].pc]_vars

C23_Witness ==
  /\ store = <<OldResume>>
  /\ procs["p1"].request.kind = "upload"
  /\ procs["p1"].response = Response(422, "check")
  /\ procs["p2"].request.kind = "ingest"
  /\ procs["p2"].response = Response(400, "check")

=============================================================================
